---- MODULE Spec2Model ----
(***************************************************************************)
(* Telecom cart API: CartService (session recovery coordinator) on top of  *)
(* SalesforceCartClient (backend context provider).                        *)
(*                                                                         *)
(* One step of the model is one turn of the JavaScript event loop: the     *)
(* code that runs from the resumption of an `await` up to and including    *)
(* the synchronous body of the next Provider call.  CartItem objects are   *)
(* shared by reference between a context's array, the carts built from it  *)
(* and Session.items; they live in the heap `cartItem`, indexed by the     *)
(* number n of their id `item_n`, and the arrays hold these numbers.       *)
(***************************************************************************)
EXTENDS Integers, Sequences, FiniteSets, TLC

\* ---------------------------------------------------------------- bounds
MaxSessions == 2
MaxContexts == 3
MaxItemIds == 4
MaxQuantity == 2
MaxOps == 5

\* ------------------------------------------------------ program constants
CONTEXT_EXPIRY_MS == 1800000
EXPIRE_BACKDATE_MS == 1000

Callers == {"a", "b"}
SeqCallers == {"a"}

ProductIds == {"p1", "p2"}
NameOf(p) == IF p = "p1" THEN "Plan" ELSE "Phone"
PriceOf(p) == IF p = "p1" THEN 100 ELSE 50

QuantityOf(p) == IF p = "p1" THEN 1 ELSE 2

\* CartItemInput values the transport layer lets through (positive price,
\* positive integer quantity): one per product.
ItemInputs ==
  { [productId |-> p, name |-> NameOf(p), price |-> PriceOf(p), quantity |-> QuantityOf(p)] :
      p \in ProductIds }

NoItemInput == [productId |-> "none", name |-> "none", price |-> 0, quantity |-> 0]

VARIABLES
  sessions,     \* CartService.sessions: sessionId -> [sfContextId, items]
  sessCounter,  \* number of session ids generated so far (sess_<uuid>)
  contexts,     \* SalesforceCartClient.contexts: contextId -> [expiresAt, items]
  ctxCounter,   \* number of context ids generated so far (ctx_<uuid>)
  cartItem,     \* heap of CartItem objects, cartItem[n] is the object with id item_n
  itemCounter,  \* SalesforceCartClient.itemCounter
  now,          \* Date.now()
  op,           \* per caller: the coordinator operation in flight
  shown,        \* per session: what its caller saw last, the items of the cart most
                \* recently returned and whether the last operation recovered
                \* ("recovered"), failed in recovery ("recovery-failed") or neither
  ref,          \* per session: the cart of the same run without any expiry
  calm,         \* so far: no backend fault, expiries only between operations,
                \* removeItem/updateItem only with ids of the cart shown last
  nOps,         \* number of operations invoked (and of clock ticks) so far
  abandoned,    \* the context ids a session's sfContextId has moved away from
  call          \* the last call made on the SalesforceCartClient directly

vars == <<sessions, sessCounter, contexts, ctxCounter, cartItem, itemCounter,
          now, op, shown, ref, calm, nOps, abandoned, call>>

\* ------------------------------------------------------------- sequences
RECURSIVE SumOverPrices(_, _)
SumOverPrices(heap, ids) ==
  IF ids = <<>> THEN 0
  ELSE heap[Head(ids)].price + SumOverPrices(heap, Tail(ids))

\* items.reduce((sum, item) => sum + item.price * item.quantity, 0)
RECURSIVE SumOver(_, _)
SumOver(heap, ids) ==
  IF ids = <<>> THEN 0
  ELSE heap[Head(ids)].price * heap[Head(ids)].quantity + SumOver(heap, Tail(ids))

RECURSIVE SumRecs(_)
SumRecs(recs) ==
  IF recs = <<>> THEN 0
  ELSE Head(recs).price * Head(recs).quantity + SumRecs(Tail(recs))

\* Array.prototype.findIndex, 1-based; 0 when there is no match.
RECURSIVE FindFrom(_, _, _)
FindFrom(seq, P(_), i) ==
  IF i > Len(seq) THEN 0
  ELSE IF P(seq[i]) THEN i
  ELSE FindFrom(seq, P, i + 1)

FindIndex(seq, P(_)) == FindFrom(seq, P, 1)

\* Array.prototype.splice(i, 1)
Splice(seq, i) == [k \in 1..(Len(seq) - 1) |-> IF k < i THEN seq[k] ELSE seq[k + 1]]

Range(seq) == { seq[i] : i \in 1..Len(seq) }

\* The (productId, name, price, quantity) of an array of CartItem objects.
Content(heap, ids) ==
  [k \in 1..Len(ids) |->
     [productId |-> heap[ids[k]].productId, name |-> heap[ids[k]].name,
      price |-> heap[ids[k]].price, quantity |-> heap[ids[k]].quantity]]

\* What the caller compares: items by productId and quantity.
ViewOf(recs) ==
  [k \in 1..Len(recs) |-> [productId |-> recs[k].productId, quantity |-> recs[k].quantity]]

\* ------------------------------------------------- SalesforceCartClient
\* The Provider's state as one value, so that a call is a function from
\* state to (response, state).
Provider == [contexts |-> contexts, cartItem |-> cartItem, itemCounter |-> itemCounter]

NoCart == [id |-> <<"none", 0>>, items |-> <<>>, total |-> 0]

Response(status, cart, context, P) ==
  [status |-> status, cart |-> cart, context |-> context, P |-> P]

getValidContext(P, t, contextId) ==
  IF contextId \notin DOMAIN P.contexts THEN "expired-context"
  ELSE IF t > P.contexts[contextId].expiresAt THEN "expired-context"
  ELSE "ok"

buildCartPriceTotal(P, contextId) ==
  [id |-> <<"cart_ctx", contextId>>,
   items |-> P.contexts[contextId].items,
   total |-> SumOverPrices(P.cartItem, P.contexts[contextId].items)]

buildCart(P, contextId) ==
  [id |-> <<"cart_ctx", contextId>>,
   items |-> P.contexts[contextId].items,
   total |-> SumOver(P.cartItem, P.contexts[contextId].items)]

createContextFirstId(P, t, newId) ==
  LET P2 == [P EXCEPT !.contexts =
               [c \in DOMAIN P.contexts \cup {1} |->
                  IF c = 1
                  THEN [expiresAt |-> t + CONTEXT_EXPIRY_MS, items |-> <<>>]
                  ELSE P.contexts[c]]]
  IN Response("ok", NoCart, 1, P2)

\* The new context's id is `ctx_${randomUUID()}`, different from every earlier id.
createContext(P, t, newId) ==
  LET P2 == [P EXCEPT !.contexts =
               [c \in DOMAIN P.contexts \cup {newId} |->
                  IF c = newId
                  THEN [expiresAt |-> t + CONTEXT_EXPIRY_MS, items |-> <<>>]
                  ELSE P.contexts[c]]]
  IN Response("ok", NoCart, newId, P2)

sfAddItemSameId(P, t, contextId, item) ==
  IF getValidContext(P, t, contextId) # "ok"
  THEN Response(getValidContext(P, t, contextId), NoCart, 0, P)
  ELSE LET id == IF P.itemCounter = 0 THEN 1 ELSE P.itemCounter
           obj == [productId |-> item.productId, name |-> item.name,
                   price |-> item.price, quantity |-> item.quantity]
           P2 == [contexts |-> [P.contexts EXCEPT ![contextId].items = Append(@, id)],
                  cartItem |-> IF id > Len(P.cartItem) THEN Append(P.cartItem, obj)
                               ELSE [P.cartItem EXCEPT ![id] = obj],
                  itemCounter |-> id]
       IN Response("ok", buildCart(P2, contextId), 0, P2)

sfAddItem(P, t, contextId, item) ==
  IF getValidContext(P, t, contextId) # "ok"
  THEN Response(getValidContext(P, t, contextId), NoCart, 0, P)
  ELSE LET id == P.itemCounter + 1
           obj == [productId |-> item.productId, name |-> item.name,
                   price |-> item.price, quantity |-> item.quantity]
           P2 == [contexts |-> [P.contexts EXCEPT ![contextId].items = Append(@, id)],
                  cartItem |-> Append(P.cartItem, obj),
                  itemCounter |-> id]
       IN Response("ok", buildCart(P2, contextId), 0, P2)

sfGetCartRenews(P, t, contextId) ==
  IF contextId \notin DOMAIN P.contexts THEN Response("expired-context", NoCart, 0, P)
  ELSE LET P2 == [P EXCEPT !.contexts[contextId].expiresAt = t + CONTEXT_EXPIRY_MS]
       IN Response("ok", buildCart(P2, contextId), 0, P2)

sfGetCart(P, t, contextId) ==
  IF getValidContext(P, t, contextId) # "ok"
  THEN Response(getValidContext(P, t, contextId), NoCart, 0, P)
  ELSE Response("ok", buildCart(P, contextId), 0, P)

sfRemoveItemUnchecked(P, t, contextId, itemId) ==
  IF contextId \notin DOMAIN P.contexts THEN Response("expired-context", NoCart, 0, P)
  ELSE LET itemIndex == FindIndex(P.contexts[contextId].items, LAMBDA x : x = itemId)
           P2 == IF itemIndex = 0 THEN P
                 ELSE [P EXCEPT !.contexts[contextId].items = Splice(@, itemIndex)]
       IN IF getValidContext(P, t, contextId) # "ok"
          THEN Response(getValidContext(P, t, contextId), NoCart, 0, P2)
          ELSE IF itemIndex = 0 THEN Response("item-not-found", NoCart, 0, P2)
          ELSE Response("ok", buildCart(P2, contextId), 0, P2)

sfRemoveItem(P, t, contextId, itemId) ==
  IF getValidContext(P, t, contextId) # "ok"
  THEN Response(getValidContext(P, t, contextId), NoCart, 0, P)
  ELSE LET itemIndex == FindIndex(P.contexts[contextId].items, LAMBDA x : x = itemId)
       IN IF itemIndex = 0
          THEN Response("item-not-found", NoCart, 0, P)
          ELSE LET P2 == [P EXCEPT !.contexts[contextId].items = Splice(@, itemIndex)]
               IN Response("ok", buildCart(P2, contextId), 0, P2)

sfUpdateItemItemFirst(P, t, contextId, itemId, quantity) ==
  LET items == IF contextId \in DOMAIN P.contexts THEN P.contexts[contextId].items ELSE <<>>
      itemIndex == FindIndex(items, LAMBDA x : x = itemId)
  IN IF itemIndex = 0 THEN Response("item-not-found", NoCart, 0, P)
     ELSE IF getValidContext(P, t, contextId) # "ok"
     THEN Response(getValidContext(P, t, contextId), NoCart, 0, P)
     ELSE LET P2 == [P EXCEPT !.cartItem[itemId].quantity = quantity]
          IN Response("ok", buildCart(P2, contextId), 0, P2)

sfUpdateItem(P, t, contextId, itemId, quantity) ==
  IF getValidContext(P, t, contextId) # "ok"
  THEN Response(getValidContext(P, t, contextId), NoCart, 0, P)
  ELSE LET itemIndex == FindIndex(P.contexts[contextId].items, LAMBDA x : x = itemId)
       IN IF itemIndex = 0
          THEN Response("item-not-found", NoCart, 0, P)
          ELSE LET P2 == [P EXCEPT !.cartItem[itemId].quantity = quantity]
               IN Response("ok", buildCart(P2, contextId), 0, P2)

\* A call through ISalesforceCartClient.  The interface promises nothing about
\* availability: `fault` is a call that rejects with an error of the backend
\* (network, outage) before it reaches the client's state.
SfCall(P, t, req, fault) ==
  IF fault THEN Response("provider-error", NoCart, 0, P)
  ELSE CASE req.m = "createContext" -> createContext(P, t, req.newId)
         [] req.m = "addItem" -> sfAddItem(P, t, req.contextId, req.item)
         [] req.m = "getCart" -> sfGetCart(P, t, req.contextId)
         [] req.m = "removeItem" -> sfRemoveItem(P, t, req.contextId, req.itemId)
         [] req.m = "updateItem" -> sfUpdateItem(P, t, req.contextId, req.itemId, req.quantity)

Req(m, contextId, item, itemId, quantity) ==
  [m |-> m, contextId |-> contextId, item |-> item, itemId |-> itemId,
   quantity |-> quantity, newId |-> 0]

ReqCreate(newId) ==
  [m |-> "createContext", contextId |-> 0, item |-> NoItemInput, itemId |-> 0,
   quantity |-> 0, newId |-> newId]

\* No direct call on the client yet.
NoCall ==
  [m |-> "none", contextId |-> 0, itemId |-> 0, t |-> 0, status |-> "none",
   cart |-> NoCart]

\* ----------------------------------------------------------- CartService
NoSession == [sfContextId |-> 0, items |-> <<>>]

NoResp == [status |-> "none", cart |-> NoCart, context |-> 0]

NoResult == [status |-> "none", cart |-> NoCart, view |-> <<>>, cause |-> "none"]

NoRef == [status |-> "none", view |-> <<>>, total |-> 0]

IdleOp ==
  [pc |-> "idle", kind |-> "none", sid |-> 0, item |-> NoItemInput, itemId |-> 0,
   quantity |-> 0, resp |-> NoResp, newContext |-> 0, replay |-> <<>>, idx |-> 0,
   result |-> NoResult, nCalls |-> 0, nCreates |-> 0, first |-> "none",
   recovered |-> FALSE, disturbed |-> FALSE, pre |-> NoSession, preContent |-> <<>>,
   prev |-> "none", recoveredItems |-> <<>>, target |-> 0, refResult |-> NoRef]

Kinds == {"getCart", "addItem", "removeItem", "updateItem"}

Faults == BOOLEAN
NoFaults == {FALSE}

\* The Provider call of `req` is made now; the caller is suspended on it.
Await(c, o, req, fault, pc) ==
  LET r == SfCall(Provider, now, req, fault)
  IN /\ contexts' = r.P.contexts
     /\ cartItem' = r.P.cartItem
     /\ itemCounter' = r.P.itemCounter
     /\ ctxCounter' = IF req.m = "createContext" /\ ~fault THEN ctxCounter + 1 ELSE ctxCounter
     /\ op' = [op EXCEPT ![c] =
                 [o EXCEPT !.pc = pc,
                           !.resp = [status |-> r.status, cart |-> r.cart, context |-> r.context],
                           !.nCalls = o.nCalls + 1,
                           !.disturbed = o.disturbed \/ fault,
                           !.nCreates = IF req.m = "createContext" THEN o.nCreates + 1
                                        ELSE o.nCreates]]

\* The operation settles: its promise resolves with a cart or rejects with an error.
Settle(c, status, cart, cause) ==
  op' = [op EXCEPT ![c].pc = "done",
                   ![c].result = [status |-> status, cart |-> cart,
                                  view |-> ViewOf(Content(cartItem, cart.items)),
                                  cause |-> cause]]

syncSessionItemsSkipped(sid, items) == sessions' = sessions

\* session.items = items
syncSessionItems(sid, items) == sessions' = [sessions EXCEPT ![sid].items = items]

\* The first Provider request of an operation.
FirstReq(kind, contextId, item, itemId, quantity) ==
  CASE kind = "getCart" -> Req("getCart", contextId, NoItemInput, 0, 0)
    [] kind = "addItem" -> Req("addItem", contextId, item, 0, 0)
    [] kind = "removeItem" -> Req("removeItem", contextId, NoItemInput, itemId, 0)
    [] kind = "updateItem" -> Req("updateItem", contextId, NoItemInput, itemId, quantity)

\* The same operation in the run without expiry: every call reaches a valid
\* context, and the id the caller names is the one at the same position of
\* the cart it was shown last.
RefPos(sid, itemId) == FindIndex(shown[sid].items, LAMBDA x : x = itemId)

RefAfter(kind, sid, item, itemId, quantity) ==
  LET k == RefPos(sid, itemId)
      r == ref[sid]
  IN CASE kind = "getCart" -> r
       [] kind = "addItem" ->
            Append(r, [productId |-> item.productId, name |-> item.name,
                       price |-> item.price, quantity |-> item.quantity])
       [] kind = "removeItem" -> IF k = 0 \/ k > Len(r) THEN r ELSE Splice(r, k)
       [] kind = "updateItem" ->
            IF k = 0 \/ k > Len(r) THEN r ELSE [r EXCEPT ![k].quantity = quantity]

\* The reference run is followed only as long as the run is calm.
Followed(calmNext, refNext) ==
  IF calmNext THEN refNext ELSE [s \in DOMAIN refNext |-> <<>>]

RefStatus(kind, sid, itemId) ==
  IF kind \in {"removeItem", "updateItem"}
     /\ (RefPos(sid, itemId) = 0 \/ RefPos(sid, itemId) > Len(ref[sid]))
  THEN "item-not-found" ELSE "ok"

\* Room left under the bounds for the contexts and items the operation may create.
WithinBounds(kind, sid) ==
  LET expired == getValidContext(Provider, now, sessions[sid].sfContextId) # "ok"
  IN /\ expired => ctxCounter < MaxContexts
     /\ itemCounter + (IF expired THEN Len(sessions[sid].items) ELSE 0)
                    + (IF kind = "addItem" THEN 1 ELSE 0) <= MaxItemIds

\* createCart, up to the await of createContext.
CreateCartCall(c, fault) ==
  /\ op[c].pc = "idle"
  /\ nOps < MaxOps
  /\ nOps' = nOps + 1
  /\ sessCounter < MaxSessions
  /\ ctxCounter < MaxContexts
  /\ sessCounter' = sessCounter + 1
  /\ Await(c, [IdleOp EXCEPT !.kind = "createCart", !.sid = sessCounter + 1],
           ReqCreate(ctxCounter + 1), fault, "creating")
  /\ calm' = (calm /\ ~fault)
  /\ ref' = Followed(calm', ref)
  /\ UNCHANGED <<sessions, now, shown>>
  /\ UNCHANGED <<abandoned, call>>

CreateCartDoneFirstContext(c) ==
  /\ op[c].pc = "creating"
  /\ sessions' = [s \in DOMAIN sessions \cup {op[c].sid} |->
                    IF s = op[c].sid THEN [sfContextId |-> 1, items |-> <<>>]
                    ELSE sessions[s]]
  /\ ref' = [s \in DOMAIN ref \cup {op[c].sid} |-> IF s = op[c].sid THEN <<>> ELSE ref[s]]
  /\ shown' = [s \in DOMAIN shown \cup {op[c].sid} |->
                 IF s = op[c].sid THEN [items |-> <<>>, last |-> "other"] ELSE shown[s]]
  /\ Settle(c, "ok", [id |-> <<"cart_sess", op[c].sid>>, items |-> <<>>, total |-> 0], "none")
  /\ UNCHANGED <<sessCounter, contexts, ctxCounter, cartItem, itemCounter, now, calm, nOps>>
  /\ UNCHANGED <<abandoned, call>>

\* createCart, after the await: the session is stored and the empty cart returned.
CreateCartDone(c) ==
  /\ op[c].pc = "creating"
  /\ IF op[c].resp.status = "ok"
     THEN /\ sessions' = [s \in DOMAIN sessions \cup {op[c].sid} |->
                            IF s = op[c].sid
                            THEN [sfContextId |-> op[c].resp.context, items |-> <<>>]
                            ELSE sessions[s]]
          /\ ref' = [s \in DOMAIN ref \cup {op[c].sid} |->
                       IF s = op[c].sid THEN <<>> ELSE ref[s]]
          /\ shown' = [s \in DOMAIN shown \cup {op[c].sid} |->
                         IF s = op[c].sid THEN [items |-> <<>>, last |-> "other"] ELSE shown[s]]
          /\ Settle(c, "ok", [id |-> <<"cart_sess", op[c].sid>>, items |-> <<>>, total |-> 0],
                    "none")
     ELSE /\ Settle(c, op[c].resp.status, NoCart, "none")
          /\ UNCHANGED <<sessions, ref, shown>>
  /\ UNCHANGED <<sessCounter, contexts, ctxCounter, cartItem, itemCounter, now, calm, nOps>>
  /\ UNCHANGED <<abandoned, call>>

InvokeUnknownCallsProvider(c, kind, sid) ==
  /\ op[c].pc = "idle"
  /\ nOps < MaxOps
  /\ nOps' = nOps + 1
  /\ sid \notin DOMAIN sessions
  /\ calm' = calm
  /\ ref' = ref
  /\ Await(c, [IdleOp EXCEPT !.kind = kind, !.sid = sid],
           Req("getCart", 0, NoItemInput, 0, 0), FALSE, "retry")
  /\ UNCHANGED <<sessions, sessCounter, now, shown>>
  /\ UNCHANGED <<abandoned, call>>

\* getSession throws CartNotFoundError: the operation rejects before any call.
InvokeUnknown(c, kind, sid) ==
  /\ op[c].pc = "idle"
  /\ nOps < MaxOps
  /\ nOps' = nOps + 1
  /\ sid \notin DOMAIN sessions
  /\ op' = [op EXCEPT ![c] =
              [IdleOp EXCEPT !.pc = "done", !.kind = kind, !.sid = sid,
                             !.result = [NoResult EXCEPT !.status = "session-not-found"],
                             !.refResult = [NoRef EXCEPT !.status = "session-not-found"]]]
  /\ UNCHANGED <<sessions, sessCounter, contexts, ctxCounter, cartItem, itemCounter,
                 now, shown, ref, calm>>
  /\ UNCHANGED <<abandoned, call>>

\* getCart/addItem/removeItem/updateItem up to the await of the first Provider call.
Invoke(c, kind, sid, item, itemId, quantity, fault) ==
  /\ op[c].pc = "idle"
  /\ nOps < MaxOps
  /\ nOps' = nOps + 1
  /\ sid \in DOMAIN sessions
  /\ WithinBounds(kind, sid)
  /\ calm' = (/\ calm
              /\ ~fault
              /\ kind \in {"removeItem", "updateItem"} => itemId \in Range(shown[sid].items))
  /\ LET after == RefAfter(kind, sid, item, itemId, quantity)
         status == RefStatus(kind, sid, itemId)
         o == [IdleOp EXCEPT !.kind = kind, !.sid = sid, !.item = item, !.itemId = itemId,
                             !.quantity = quantity, !.pre = sessions[sid],
                             !.preContent = Content(cartItem, sessions[sid].items),
                             !.prev = shown[sid].last,
                             !.refResult =
                               IF ~calm' THEN NoRef
                               ELSE [status |-> status,
                                     view |-> IF status = "ok" THEN ViewOf(after) ELSE <<>>,
                                     total |-> IF status = "ok" THEN SumRecs(after) ELSE 0]]
     IN /\ ref' = Followed(calm', [ref EXCEPT ![sid] = after])
        /\ Await(c, o, FirstReq(kind, sessions[sid].sfContextId, item, itemId, quantity),
                 fault, "first")
  /\ UNCHANGED <<sessions, sessCounter, now, shown>>
  /\ UNCHANGED <<abandoned, call>>

FirstOkSyncsAll(c) ==
  /\ op[c].pc = "first"
  /\ op[c].resp.status = "ok"
  /\ IF op[c].kind = "getCart" THEN UNCHANGED sessions
     ELSE sessions' = [s \in DOMAIN sessions |->
                         [sessions[s] EXCEPT !.items = op[c].resp.cart.items]]
  /\ op' = [op EXCEPT ![c].pc = "done", ![c].first = "ok",
                       ![c].result = [status |-> "ok", cart |-> op[c].resp.cart,
                                      view |-> ViewOf(Content(cartItem, op[c].resp.cart.items)),
                                      cause |-> "none"]]
  /\ UNCHANGED <<sessCounter, contexts, ctxCounter, cartItem, itemCounter, now, shown, ref,
                 calm, nOps>>
  /\ UNCHANGED <<abandoned, call>>

\* The first call succeeded: Session.items is synchronised (not by getCart) and
\* the Provider's cart is returned.
FirstOk(c) ==
  /\ op[c].pc = "first"
  /\ op[c].resp.status = "ok"
  /\ IF op[c].kind = "getCart" THEN UNCHANGED sessions
     ELSE syncSessionItems(op[c].sid, op[c].resp.cart.items)
  /\ op' = [op EXCEPT ![c].pc = "done", ![c].first = "ok",
                       ![c].result = [status |-> "ok", cart |-> op[c].resp.cart,
                                      view |-> ViewOf(Content(cartItem, op[c].resp.cart.items)),
                                      cause |-> "none"]]
  /\ UNCHANGED <<sessCounter, contexts, ctxCounter, cartItem, itemCounter, now, shown, ref,
                 calm, nOps>>
  /\ UNCHANGED <<abandoned, call>>

FirstErrorRecovers(c) ==
  /\ op[c].pc = "first"
  /\ op[c].resp.status \notin {"ok", "expired-context"}
  /\ Await(c, [op[c] EXCEPT !.first = op[c].resp.status], ReqCreate(ctxCounter + 1),
           FALSE, "created")
  /\ UNCHANGED <<sessions, sessCounter, now, shown, ref, calm, nOps, abandoned, call>>

\* The first call failed with something other than ContextExpiredError: rethrown.
FirstError(c) ==
  /\ op[c].pc = "first"
  /\ op[c].resp.status \notin {"ok", "expired-context"}
  /\ op' = [op EXCEPT ![c].pc = "done", ![c].first = op[c].resp.status,
                       ![c].result = [NoResult EXCEPT !.status = op[c].resp.status]]
  /\ UNCHANGED <<sessions, sessCounter, contexts, ctxCounter, cartItem, itemCounter,
                 now, shown, ref, calm, nOps>>
  /\ UNCHANGED <<abandoned, call>>

\* recoverContext step 1: ContextExpiredError was caught, a new context is requested.
RecoverCreate(c, fault) ==
  /\ op[c].pc = "first"
  /\ op[c].resp.status = "expired-context"
  /\ Await(c, [op[c] EXCEPT !.first = "expired-context"], ReqCreate(ctxCounter + 1),
           fault, "created")
  /\ calm' = (calm /\ ~fault)
  /\ ref' = Followed(calm', ref)
  /\ UNCHANGED <<sessions, sessCounter, now, shown, nOps>>
  /\ UNCHANGED <<abandoned, call>>

\* The CartItemInput recoverContext builds from an item of Session.items.
ReplayInputOne(item) ==
  [productId |-> item.productId, name |-> item.name, price |-> item.price, quantity |-> 1]

ReplayInput(item) ==
  [productId |-> item.productId, name |-> item.name, price |-> item.price,
   quantity |-> item.quantity]

\* recoverContext step 2: the next item of Session.items is added to the new context.
\* The loop iterates the array Session.items referred to when the loop started and
\* reads each item's fields when its turn comes.
ReplayItem(c, fault) ==
  /\ \/ op[c].pc = "created" /\ sessions[op[c].sid].items # <<>>
     \/ op[c].pc = "replay" /\ op[c].idx < Len(op[c].replay)
  /\ op[c].resp.status = "ok"
  /\ LET array == IF op[c].pc = "created" THEN sessions[op[c].sid].items ELSE op[c].replay
         i == IF op[c].pc = "created" THEN 1 ELSE op[c].idx + 1
         newContext == IF op[c].pc = "created" THEN op[c].resp.context ELSE op[c].newContext
         item == cartItem[array[i]]
     IN Await(c, [op[c] EXCEPT !.replay = array, !.idx = i, !.newContext = newContext],
              Req("addItem", newContext, ReplayInput(item), 0, 0),
              fault, "replay")
  /\ calm' = (calm /\ ~fault)
  /\ ref' = Followed(calm', ref)
  /\ UNCHANGED <<sessions, sessCounter, now, shown, nOps>>
  /\ UNCHANGED <<abandoned, call>>

RebindPartial(c) ==
  /\ \/ op[c].pc = "created" /\ sessions[op[c].sid].items = <<>>
     \/ op[c].pc = "replay" /\ op[c].idx >= 1
  /\ op[c].resp.status = "ok"
  /\ LET newContext == IF op[c].pc = "created" THEN op[c].resp.context ELSE op[c].newContext
     IN /\ sessions' = [sessions EXCEPT ![op[c].sid].sfContextId = newContext]
        /\ op' = [op EXCEPT ![c].pc = "rebound", ![c].newContext = newContext,
                             ![c].recovered = TRUE]
  /\ UNCHANGED <<sessCounter, contexts, ctxCounter, cartItem, itemCounter, now, shown, ref,
                 calm, nOps>>
  /\ abandoned' = abandoned \cup {sessions[op[c].sid].sfContextId}
  /\ UNCHANGED call

\* recoverContext step 3: every item was replayed, the session is rebound.
Rebind(c) ==
  /\ \/ op[c].pc = "created" /\ sessions[op[c].sid].items = <<>>
     \/ op[c].pc = "replay" /\ op[c].idx = Len(op[c].replay)
  /\ op[c].resp.status = "ok"
  /\ LET newContext == IF op[c].pc = "created" THEN op[c].resp.context ELSE op[c].newContext
     IN /\ sessions' = [sessions EXCEPT ![op[c].sid].sfContextId = newContext]
        /\ op' = [op EXCEPT ![c].pc = "rebound", ![c].newContext = newContext,
                             ![c].recovered = TRUE]
  /\ UNCHANGED <<sessCounter, contexts, ctxCounter, cartItem, itemCounter, now, shown, ref,
                 calm, nOps>>
  /\ abandoned' = abandoned \cup {sessions[op[c].sid].sfContextId}
  /\ UNCHANGED call

RecoverFailedKeepsNewContext(c) ==
  /\ op[c].pc \in {"created", "replay"}
  /\ op[c].resp.status # "ok"
  /\ Settle(c, "recovery-failed", NoCart, IF op[c].pc = "created" THEN "create" ELSE "replay")
  /\ sessions' = IF op[c].newContext = 0 THEN sessions
                 ELSE [sessions EXCEPT ![op[c].sid].sfContextId = op[c].newContext]
  /\ UNCHANGED <<sessCounter, contexts, ctxCounter, cartItem, itemCounter,
                 now, shown, ref, calm, nOps>>
  /\ UNCHANGED <<abandoned, call>>

\* recoverContext's catch: createContext or a replayed addItem threw.
RecoverFailed(c) ==
  /\ op[c].pc \in {"created", "replay"}
  /\ op[c].resp.status # "ok"
  /\ Settle(c, "recovery-failed", NoCart, IF op[c].pc = "created" THEN "create" ELSE "replay")
  /\ UNCHANGED <<sessions, sessCounter, contexts, ctxCounter, cartItem, itemCounter,
                 now, shown, ref, calm, nOps>>
  /\ UNCHANGED <<abandoned, call>>

\* getCart/addItem after recovery: the original call is issued again on the
\* session's (new) context.
RetryCall(c, fault) ==
  /\ op[c].pc = "rebound"
  /\ op[c].kind \in {"getCart", "addItem"}
  /\ Await(c, op[c],
           FirstReq(op[c].kind, sessions[op[c].sid].sfContextId, op[c].item, 0, 0),
           fault, "retry")
  /\ calm' = (calm /\ ~fault)
  /\ ref' = Followed(calm', ref)
  /\ UNCHANGED <<sessions, sessCounter, now, shown, nOps>>
  /\ UNCHANGED <<abandoned, call>>

\* removeItem/updateItem after recovery: no item of Session.items has the given
\* id, the caught ContextExpiredError is thrown again.
LookupMissing(c) ==
  /\ op[c].pc = "rebound"
  /\ op[c].kind \in {"removeItem", "updateItem"}
  /\ op[c].itemId \notin Range(sessions[op[c].sid].items)
  /\ Settle(c, "expired-context", NoCart, "none")
  /\ UNCHANGED <<sessions, sessCounter, contexts, ctxCounter, cartItem, itemCounter,
                 now, shown, ref, calm, nOps>>
  /\ UNCHANGED <<abandoned, call>>

\* removeItem/updateItem after recovery: the item is in Session.items, the
\* recovered cart is fetched to find its new id.
LookupCall(c, fault) ==
  /\ op[c].pc = "rebound"
  /\ op[c].kind \in {"removeItem", "updateItem"}
  /\ op[c].itemId \in Range(sessions[op[c].sid].items)
  /\ Await(c, op[c], Req("getCart", sessions[op[c].sid].sfContextId, NoItemInput, 0, 0),
           fault, "lookup")
  /\ calm' = (calm /\ ~fault)
  /\ ref' = Followed(calm', ref)
  /\ UNCHANGED <<sessions, sessCounter, now, shown, nOps>>
  /\ UNCHANGED <<abandoned, call>>

LookupErrorDropsSession(c) ==
  /\ op[c].pc = "lookup"
  /\ op[c].resp.status # "ok"
  /\ Settle(c, op[c].resp.status, NoCart, "none")
  /\ UNCHANGED <<sessCounter, contexts, ctxCounter, cartItem, itemCounter,
                 now, shown, ref, calm, nOps>>
  /\ UNCHANGED <<abandoned, call>>
  /\ sessions' = [s \in DOMAIN sessions \ {op[c].sid} |-> sessions[s]]

\* The getCart of the lookup failed: its error leaves the operation.
LookupError(c) ==
  /\ op[c].pc = "lookup"
  /\ op[c].resp.status # "ok"
  /\ Settle(c, op[c].resp.status, NoCart, "none")
  /\ UNCHANGED <<sessions, sessCounter, contexts, ctxCounter, cartItem, itemCounter,
                 now, shown, ref, calm, nOps>>
  /\ UNCHANGED <<abandoned, call>>

NewItemAny(recoveredItems, itemId) ==
  IF recoveredItems = <<>> THEN 0 ELSE recoveredItems[1]

\* recoveredCart.items.find(item => item.productId === itemToRemove.productId);
\* 0 when there is none.
NewItem(recoveredItems, itemId) ==
  LET k == FindIndex(recoveredItems,
                     LAMBDA x : cartItem[x].productId = cartItem[itemId].productId)
  IN IF k = 0 THEN 0 ELSE recoveredItems[k]

\* The recovered cart arrived: the first item with the productId of the addressed
\* item is removed/updated under its new id; ContextRecoveryFailedError if none.
LookupResume(c, fault) ==
  /\ op[c].pc = "lookup"
  /\ op[c].resp.status = "ok"
  /\ LET newItem == NewItem(op[c].resp.cart.items, op[c].itemId)
     IN IF newItem = 0
        THEN /\ Settle(c, "recovery-failed", NoCart, "lookup")
             /\ UNCHANGED <<contexts, ctxCounter, cartItem, itemCounter, calm, ref>>
        ELSE /\ Await(c, [op[c] EXCEPT !.target = newItem,
                                       !.recoveredItems = op[c].resp.cart.items],
                      FirstReq(op[c].kind, sessions[op[c].sid].sfContextId, NoItemInput,
                               newItem, op[c].quantity),
                      fault, "retry")
             /\ calm' = (calm /\ ~fault)
             /\ ref' = Followed(calm', ref)
  /\ UNCHANGED <<sessions, sessCounter, now, shown, nOps>>
  /\ UNCHANGED <<abandoned, call>>

\* The call issued again succeeded: synchronise (not for getCart) and return.
RetryOk(c) ==
  /\ op[c].pc = "retry"
  /\ op[c].resp.status = "ok"
  /\ IF op[c].kind = "getCart" THEN UNCHANGED sessions
     ELSE syncSessionItems(op[c].sid, op[c].resp.cart.items)
  /\ Settle(c, "ok", op[c].resp.cart, "none")
  /\ UNCHANGED <<sessCounter, contexts, ctxCounter, cartItem, itemCounter, now, shown, ref,
                 calm, nOps>>
  /\ UNCHANGED <<abandoned, call>>

RetryErrorRecoversAgain(c) ==
  /\ op[c].pc = "retry"
  /\ op[c].resp.status # "ok"
  /\ op' = [op EXCEPT ![c].pc = "first"]
  /\ UNCHANGED <<sessions, sessCounter, contexts, ctxCounter, cartItem, itemCounter,
                 now, shown, ref, calm, nOps>>
  /\ UNCHANGED <<abandoned, call>>

\* The call issued again failed: its error leaves the operation, whatever it is.
RetryError(c) ==
  /\ op[c].pc = "retry"
  /\ op[c].resp.status # "ok"
  /\ Settle(c, op[c].resp.status, NoCart, "none")
  /\ UNCHANGED <<sessions, sessCounter, contexts, ctxCounter, cartItem, itemCounter,
                 now, shown, ref, calm, nOps>>
  /\ UNCHANGED <<abandoned, call>>

\* The caller takes the outcome; a returned cart is the one it knows from now on.
Return(c) ==
  /\ op[c].pc = "done"
  /\ shown' = IF op[c].sid \notin DOMAIN shown THEN shown
              ELSE IF op[c].result.status = "ok"
              THEN [shown EXCEPT ![op[c].sid] =
                      [items |-> op[c].result.cart.items,
                       last |-> IF op[c].recovered THEN "recovered" ELSE "other"]]
              ELSE [shown EXCEPT ![op[c].sid].last =
                      IF op[c].result.status = "recovery-failed" THEN "recovery-failed"
                      ELSE "other"]
  /\ op' = [op EXCEPT ![c] = IdleOp]
  /\ UNCHANGED <<sessions, sessCounter, contexts, ctxCounter, cartItem, itemCounter,
                 now, ref, calm, nOps>>
  /\ UNCHANGED <<abandoned, call>>

\* ------------------------------------------------------------ environment
Quiet == \A c \in Callers : op[c].pc = "idle"

expireContextAll(contextId) ==
  /\ contextId \in DOMAIN contexts
  /\ contexts' = [x \in DOMAIN contexts |->
                    [contexts[x] EXCEPT !.expiresAt = now - EXPIRE_BACKDATE_MS]]
  /\ calm' = (calm /\ Quiet)
  /\ op' = [c \in Callers |->
              IF op[c].pc \in {"idle", "done"} THEN op[c]
              ELSE [op[c] EXCEPT !.disturbed = TRUE]]
  /\ ref' = Followed(calm', ref)
  /\ UNCHANGED <<sessions, sessCounter, ctxCounter, cartItem, itemCounter, now,
                 shown, nOps>>
  /\ UNCHANGED <<abandoned, call>>

\* SalesforceCartClient.expireContext, the induced expiry.
expireContext(contextId) ==
  /\ contextId \in DOMAIN contexts
  /\ contexts' = [contexts EXCEPT ![contextId].expiresAt = now - EXPIRE_BACKDATE_MS]
  /\ calm' = (calm /\ Quiet)
  /\ op' = [c \in Callers |->
              IF op[c].pc \in {"idle", "done"} THEN op[c]
              ELSE [op[c] EXCEPT !.disturbed = TRUE]]
  /\ ref' = Followed(calm', ref)
  /\ UNCHANGED <<sessions, sessCounter, ctxCounter, cartItem, itemCounter, now,
                 shown, nOps>>
  /\ UNCHANGED <<abandoned, call>>

\* ---------------------------------------------------------- specification
Init ==
  /\ sessions = <<>>
  /\ sessCounter = 0
  /\ contexts = <<>>
  /\ ctxCounter = 0
  /\ cartItem = <<>>
  /\ itemCounter = 0
  /\ now = 0
  /\ op = [c \in Callers |-> IdleOp]
  /\ shown = <<>>
  /\ ref = <<>>
  /\ calm = TRUE
  /\ nOps = 0
  /\ abandoned = {}
  /\ call = NoCall

\* The item ids a caller passes: the ids of the cart it was shown last, the ids
\* the code compares with (Session.items, the items of the session's context),
\* and 0 for every other string, which equals none of them.
ItemIds(sid) ==
  IF sid \notin DOMAIN sessions THEN {0}
  ELSE {0} \cup Range(shown[sid].items) \cup Range(sessions[sid].items)
           \cup (IF sessions[sid].sfContextId \in DOMAIN contexts
                 THEN Range(contexts[sessions[sid].sfContextId].items) ELSE {})

\* At most one coordinator operation is in flight.
Next ==
  \/ \E c \in SeqCallers, f \in NoFaults : CreateCartCall(c, f)
  \/ \E c \in SeqCallers : CreateCartDone(c)
  \/ \E c \in SeqCallers, kind \in Kinds, sid \in 1..MaxSessions : InvokeUnknown(c, kind, sid)
  \/ \E c \in SeqCallers, sid \in 1..MaxSessions, f \in NoFaults :
       \/ Invoke(c, "getCart", sid, NoItemInput, 0, 0, f)
       \/ \E item \in ItemInputs : Invoke(c, "addItem", sid, item, 0, 0, f)
       \/ \E itemId \in ItemIds(sid) : Invoke(c, "removeItem", sid, NoItemInput, itemId, 0, f)
       \/ \E itemId \in ItemIds(sid), q \in 1..MaxQuantity :
            Invoke(c, "updateItem", sid, NoItemInput, itemId, q, f)
  \/ \E c \in SeqCallers : FirstOk(c)
  \/ \E c \in SeqCallers : FirstError(c)
  \/ \E c \in SeqCallers, f \in Faults : RecoverCreate(c, f)
  \/ \E c \in SeqCallers, f \in Faults : ReplayItem(c, f)
  \/ \E c \in SeqCallers : Rebind(c)
  \/ \E c \in SeqCallers : RecoverFailed(c)
  \/ \E c \in SeqCallers, f \in NoFaults : RetryCall(c, f)
  \/ \E c \in SeqCallers : LookupMissing(c)
  \/ \E c \in SeqCallers, f \in NoFaults : LookupCall(c, f)
  \/ \E c \in SeqCallers : LookupError(c)
  \/ \E c \in SeqCallers, f \in NoFaults : LookupResume(c, f)
  \/ \E c \in SeqCallers : RetryOk(c)
  \/ \E c \in SeqCallers : RetryError(c)
  \/ \E c \in SeqCallers : Return(c)
  \/ \E contextId \in 1..MaxContexts : expireContext(contextId)

Spec == Init /\ [][Next]_vars

TypeOK ==
  /\ sessCounter \in 0..MaxSessions
  /\ ctxCounter \in 0..MaxContexts
  /\ itemCounter \in 0..MaxItemIds
  /\ itemCounter = Len(cartItem)

\* ------------------------------------------- SalesforceCartClient on its own
\* A call made on the client directly, as its own tests make it: the async method
\* runs to its return or throw in one turn.
DirectCall(req) ==
  /\ Quiet
  /\ nOps < MaxOps
  /\ nOps' = nOps + 1
  /\ req.m = "createContext" => ctxCounter < MaxContexts
  /\ req.m = "addItem" => itemCounter < MaxItemIds
  /\ LET r == SfCall(Provider, now, req, FALSE)
     IN /\ contexts' = r.P.contexts
        /\ cartItem' = r.P.cartItem
        /\ itemCounter' = r.P.itemCounter
        /\ ctxCounter' = IF req.m = "createContext" THEN ctxCounter + 1 ELSE ctxCounter
        /\ call' = [m |-> req.m,
                    contextId |-> IF req.m = "createContext" THEN r.context ELSE req.contextId,
                    itemId |-> req.itemId, t |-> now, status |-> r.status, cart |-> r.cart]
  /\ UNCHANGED <<sessions, sessCounter, now, op, shown, ref, calm, abandoned>>

\* The instants around which the validity of a context changes: its expiresAt and
\* the millisecond after it.
Instants ==
  UNION { {contexts[c].expiresAt, contexts[c].expiresAt + 1} : c \in DOMAIN contexts }

\* Date.now() moves on between two calls.
Tick(t) ==
  /\ Quiet
  /\ nOps < MaxOps
  /\ nOps' = nOps + 1
  /\ t > now
  /\ now' = t
  /\ UNCHANGED <<sessions, sessCounter, contexts, ctxCounter, cartItem, itemCounter,
                 op, shown, ref, calm, abandoned, call>>

NextProvider ==
  \/ DirectCall(ReqCreate(ctxCounter + 1))
  \/ \E contextId \in 1..MaxContexts, item \in ItemInputs :
       DirectCall(Req("addItem", contextId, item, 0, 0))
  \/ \E contextId \in 1..MaxContexts :
       DirectCall(Req("getCart", contextId, NoItemInput, 0, 0))
  \/ \E contextId \in 1..MaxContexts, itemId \in 1..MaxItemIds :
       DirectCall(Req("removeItem", contextId, NoItemInput, itemId, 0))
  \/ \E contextId \in 1..MaxContexts, itemId \in 1..MaxItemIds, q \in 1..MaxQuantity :
       DirectCall(Req("updateItem", contextId, NoItemInput, itemId, q))
  \/ \E contextId \in 1..MaxContexts :
       /\ getValidContext(Provider, now, contextId) = "ok"
       /\ expireContext(contextId)
  \/ \E t \in Instants : Tick(t)

SpecProvider == Init /\ [][NextProvider]_vars

\* ------------------------------------------------- expiry over a long time
\* The coordinator's getCart and addItem and direct getCart calls on the client,
\* while the clock moves on and the test helper expires any context there is, a
\* context that has expired long ago included.  The direct calls name the ids
\* createContext has returned (a ctx_<uuid> cannot be named before it exists).
NextExpiry ==
  \/ \E c \in SeqCallers : CreateCartCall(c, FALSE)
  \/ \E c \in SeqCallers : CreateCartDone(c)
  \/ \E c \in SeqCallers, sid \in 1..MaxSessions :
       Invoke(c, "getCart", sid, NoItemInput, 0, 0, FALSE)
  \/ \E c \in SeqCallers, sid \in 1..MaxSessions, item \in ItemInputs :
       Invoke(c, "addItem", sid, item, 0, 0, FALSE)
  \/ \E c \in SeqCallers : FirstOk(c)
  \/ \E c \in SeqCallers : RecoverCreate(c, FALSE)
  \/ \E c \in SeqCallers : ReplayItem(c, FALSE)
  \/ \E c \in SeqCallers : Rebind(c)
  \/ \E c \in SeqCallers : RetryCall(c, FALSE)
  \/ \E c \in SeqCallers : RetryOk(c)
  \/ \E c \in SeqCallers : RetryError(c)
  \/ \E c \in SeqCallers : Return(c)
  \/ \E contextId \in DOMAIN contexts :
       DirectCall(Req("getCart", contextId, NoItemInput, 0, 0))
  \/ \E contextId \in 1..MaxContexts : expireContext(contextId)
  \/ \E t \in Instants : Tick(t)

SpecExpiry == Init /\ [][NextExpiry]_vars

\* ----------------------------------------------------------- the event loop
\* A Provider call made by an operation settles, and the event loop then runs the
\* operation's continuation: a suspended operation is resumed eventually.
Continue(c) ==
  \/ CreateCartDone(c)
  \/ FirstOk(c)
  \/ FirstError(c)
  \/ \E f \in Faults : RecoverCreate(c, f)
  \/ \E f \in Faults : ReplayItem(c, f)
  \/ Rebind(c)
  \/ RecoverFailed(c)
  \/ RetryCall(c, FALSE)
  \/ LookupMissing(c)
  \/ LookupCall(c, FALSE)
  \/ LookupError(c)
  \/ LookupResume(c, FALSE)
  \/ RetryOk(c)
  \/ RetryError(c)

SpecLive == Spec /\ \A c \in SeqCallers : WF_vars(Continue(c))

\* ------------------------------------------------- operations in flight together
\* No lock protects a session: a second operation may be invoked while the first is
\* suspended on an await, and the suspended operations resume in any order.  The
\* operations work on one session, the expiries are induced while no operation is
\* in flight, and the guards keep the contexts and items created within the bounds.
ConcCreateCart(c) ==
  /\ sessCounter = 0
  /\ CreateCartCall(c, FALSE)

ConcRecoverCreate(c) ==
  /\ ctxCounter < MaxContexts
  /\ RecoverCreate(c, FALSE)

ConcReplayItem(c) ==
  /\ itemCounter < MaxItemIds
  /\ ReplayItem(c, FALSE)

ConcRetryCall(c) ==
  /\ op[c].kind = "addItem" => itemCounter < MaxItemIds
  /\ RetryCall(c, FALSE)

NextConc ==
  \/ \E c \in SeqCallers : ConcCreateCart(c)
  \/ \E c \in SeqCallers : CreateCartDone(c)
  \/ \E c \in Callers, sid \in 1..MaxSessions :
       Invoke(c, "getCart", sid, NoItemInput, 0, 0, FALSE)
  \/ \E c \in Callers, sid \in 1..MaxSessions, item \in ItemInputs :
       Invoke(c, "addItem", sid, item, 0, 0, FALSE)
  \/ \E c \in Callers : FirstOk(c)
  \/ \E c \in Callers : ConcRecoverCreate(c)
  \/ \E c \in Callers : ConcReplayItem(c)
  \/ \E c \in Callers : Rebind(c)
  \/ \E c \in Callers : ConcRetryCall(c)
  \/ \E c \in Callers : RetryOk(c)
  \/ \E c \in Callers : Return(c)
  \/ \E contextId \in 1..MaxContexts :
       /\ Quiet
       /\ getValidContext(Provider, now, contextId) = "ok"
       /\ expireContext(contextId)

SpecConc == Init /\ [][NextConc]_vars

\* ------------------------------------------- two sessions, operations in flight
\* Each caller works on a session of its own (the second session exists once
\* createCart has run twice) and the operations of the two callers resume in any
\* order.  removeItem and updateItem may name any item id issued so far, the other session's
\* included.  A valid context may be expired at any moment.
SessionOf(c) == IF c = "a" THEN 1 ELSE 2

IsoCreateCart(c) ==
  /\ Quiet
  /\ CreateCartCall(c, FALSE)

NextIso ==
  \/ \E c \in SeqCallers : IsoCreateCart(c)
  \/ \E c \in SeqCallers : CreateCartDone(c)
  \/ \E c \in Callers : Invoke(c, "getCart", SessionOf(c), NoItemInput, 0, 0, FALSE)
  \/ \E c \in Callers, item \in ItemInputs : Invoke(c, "addItem", SessionOf(c), item, 0, 0, FALSE)
  \/ \E c \in Callers, itemId \in 1..itemCounter :
       Invoke(c, "removeItem", SessionOf(c), NoItemInput, itemId, 0, FALSE)
  \/ \E c \in Callers, itemId \in 1..itemCounter, q \in 1..MaxQuantity :
       Invoke(c, "updateItem", SessionOf(c), NoItemInput, itemId, q, FALSE)
  \/ \E c \in Callers : FirstOk(c)
  \/ \E c \in Callers : FirstError(c)
  \/ \E c \in Callers : ConcRecoverCreate(c)
  \/ \E c \in Callers : ConcReplayItem(c)
  \/ \E c \in Callers : Rebind(c)
  \/ \E c \in Callers : ConcRetryCall(c)
  \/ \E c \in Callers : LookupMissing(c)
  \/ \E c \in Callers : LookupCall(c, FALSE)
  \/ \E c \in Callers : LookupResume(c, FALSE)
  \/ \E c \in Callers : RetryOk(c)
  \/ \E c \in Callers : RetryError(c)
  \/ \E c \in Callers : Return(c)
  \/ \E contextId \in 1..MaxContexts :
       /\ getValidContext(Provider, now, contextId) = "ok"
       /\ expireContext(contextId)

SpecIso == Init /\ [][NextIso]_vars

\* ================================================================ claims
Finished(c) == op[c].pc = "done" /\ op[c].kind \in Kinds

\* Two views hold the same items by productId and quantity.
SameItems(v, w) ==
  \A r \in Range(v) \cup Range(w) :
    Cardinality({i \in 1..Len(v) : v[i] = r}) = Cardinality({i \in 1..Len(w) : w[i] = r})

InputRecord(item) ==
  [productId |-> item.productId, name |-> item.name, price |-> item.price,
   quantity |-> item.quantity]

\* The (productId, name, price, quantity) of the returned cart's items.
Returned(c) == Content(cartItem, op[c].result.cart.items)

\* C1 (invisibility): in a run where the expiries are induced between operations
\* and removeItem/updateItem name ids of the cart shown last, every operation has
\* the outcome, the items (by productId and quantity) and the total that the same
\* operation has in the run without expiry.
C1_Invisibility ==
  \A c \in Callers :
    (Finished(c) /\ calm) =>
      /\ op[c].result.status = op[c].refResult.status
      /\ op[c].result.status = "ok" =>
           /\ SameItems(op[c].result.view, op[c].refResult.view)
           /\ op[c].result.cart.total = op[c].refResult.total

\* What getCart/addItem must return after a recovery: the items Session.items
\* held before the call, then the added item.
ExpectedAfterRecovery(c) ==
  IF op[c].kind = "addItem" THEN Append(op[c].preContent, InputRecord(op[c].item))
  ELSE op[c].preContent

RecoveredGetOrAdd(c) ==
  /\ Finished(c)
  /\ op[c].kind \in {"getCart", "addItem"}
  /\ op[c].first = "expired-context"
  /\ op[c].recovered

C3_NoExpiredContextError ==
  \A c \in Callers :
    (Finished(c) /\ calm) =>
      op[c].result.status \in {"ok", "session-not-found", "item-not-found", "recovery-failed"}

\* C4: an operation calls createContext at most once, and when the call issued
\* again after a successful recovery fails with expired-context, that error is the
\* operation's outcome and no second context was created.
C4_RecoveryAtMostOnce ==
  \A c \in Callers :
    /\ op[c].nCreates <= 1
    /\ (Finished(c) /\ op[c].recovered /\ op[c].resp.status = "expired-context") =>
         /\ op[c].result.status = "expired-context"
         /\ op[c].nCreates = 1

C4_Witness ==
  \E c \in Callers :
    /\ Finished(c)
    /\ op[c].recovered
    /\ op[c].resp.status = "expired-context"
    /\ op[c].result.status = "expired-context"

\* C5: when createContext or a replayed addItem fails, the operation fails with
\* recovery-failed, the session has the context id and the items it had before the
\* operation, and no session is bound to the partly filled new context.
C5_FailedRecoveryLeavesSession ==
  \A c \in Callers :
    (Finished(c) /\ op[c].nCreates = 1 /\ ~op[c].recovered) =>
      /\ op[c].result.status = "recovery-failed"
      /\ sessions[op[c].sid] = op[c].pre
      /\ Content(cartItem, sessions[op[c].sid].items) = op[c].preContent
      /\ \A s \in DOMAIN sessions :
           op[c].newContext # 0 => sessions[s].sfContextId # op[c].newContext

C5_Witness ==
  \E c \in Callers :
    /\ Finished(c)
    /\ op[c].result.status = "recovery-failed"
    /\ op[c].result.cause = "replay"
    /\ op[c].idx = 2
    /\ contexts[op[c].newContext].items # <<>>

\* What removeItem/updateItem must return after a recovery: the items Session.items
\* held before the call, the first one with the productId of the addressed item
\* removed or set to the new quantity.
ExpectedAfterLookup(c) ==
  LET k == FindIndex(op[c].preContent,
                     LAMBDA r : r.productId = cartItem[op[c].itemId].productId)
  IN IF op[c].kind = "removeItem" THEN Splice(op[c].preContent, k)
     ELSE [op[c].preContent EXCEPT ![k].quantity = op[c].quantity]

ExpectedAfter(c) ==
  IF op[c].kind \in {"getCart", "addItem"} THEN ExpectedAfterRecovery(c)
  ELSE ExpectedAfterLookup(c)

\* C6: the operation that follows one that failed with recovery-failed, with no
\* backend failure and no expiry during it, recovers afresh and succeeds, and its
\* cart holds every prior item once (removeItem/updateItem naming an id of the
\* cart shown last).
C6_NextOperationRecovers ==
  \A c \in Callers :
    (/\ Finished(c)
     /\ op[c].prev = "recovery-failed"
     /\ ~op[c].disturbed
     /\ op[c].kind \in {"removeItem", "updateItem"} =>
          op[c].itemId \in Range(shown[op[c].sid].items)) =>
      /\ op[c].nCreates = 1
      /\ op[c].recovered
      /\ op[c].result.status = "ok"
      /\ Returned(c) = ExpectedAfter(c)

\* C7: in a calm run, the operation that finds the context expired right after an
\* operation that recovered succeeds again with the items of the run without expiry.
C7_IdempotentRecovery ==
  \A c \in Callers :
    (Finished(c) /\ calm /\ op[c].prev = "recovered" /\ op[c].first = "expired-context") =>
      /\ op[c].result.status = "ok"
      /\ SameItems(op[c].result.view, op[c].refResult.view)

RecoveredRemoveOrUpdate(c) ==
  /\ Finished(c)
  /\ op[c].kind \in {"removeItem", "updateItem"}
  /\ op[c].first = "expired-context"
  /\ op[c].recovered
  /\ op[c].itemId \in Range(op[c].pre.items)

DistinctProducts(recs) ==
  \A i, j \in 1..Len(recs) : recs[i].productId = recs[j].productId => i = j

\* C8: a removeItem/updateItem that finds the context expired, with an id of
\* Session.items, acts after recovery on the first item of the new context that has
\* the productId of the addressed item; the cart it returns is the prior cart with
\* that entry removed or its quantity changed, the other items in order (with
\* distinct productIds: exactly the addressed product is removed or changed).
C8_IdentifierRemapping ==
  \A c \in Callers :
    RecoveredRemoveOrUpdate(c) =>
      LET pid == cartItem[op[c].itemId].productId
      IN /\ ~op[c].disturbed => op[c].result.status = "ok"
         /\ op[c].target # 0 =>
              \E k \in 1..Len(op[c].recoveredItems) :
                /\ op[c].recoveredItems[k] = op[c].target
                /\ cartItem[op[c].target].productId = pid
                /\ \A j \in 1..(k - 1) : cartItem[op[c].recoveredItems[j]].productId # pid
         /\ op[c].result.status = "ok" =>
              /\ Returned(c) = ExpectedAfterLookup(c)
              /\ sessions[op[c].sid].items = op[c].result.cart.items
              /\ (DistinctProducts(op[c].preContent) /\ op[c].kind = "removeItem") =>
                   Returned(c) = SelectSeq(op[c].preContent, LAMBDA r : r.productId # pid)

C8_Witness ==
  \E c \in Callers :
    /\ RecoveredRemoveOrUpdate(c)
    /\ op[c].kind = "removeItem"
    /\ op[c].result.status = "ok"
    /\ Len(op[c].preContent) = 2
    /\ DistinctProducts(op[c].preContent)
    /\ op[c].itemId = op[c].pre.items[2]

\* C9: a removeItem/updateItem that finds the context expired and whose id is not
\* in Session.items fails with item-not-found, as it does on a valid context.
C9_NotFoundPreserved ==
  \A c \in Callers :
    (/\ Finished(c)
     /\ op[c].kind \in {"removeItem", "updateItem"}
     /\ op[c].first = "expired-context"
     /\ op[c].recovered
     /\ op[c].itemId \notin Range(op[c].pre.items)) =>
      op[c].result.status = "item-not-found"

\* C10: an operation on a session id that createCart has not returned fails with
\* session-not-found in the step that invokes it, without any Provider call, and
\* that step changes no session and no context.
C10_UnknownSession ==
  [][\A c \in Callers :
       (/\ op[c].pc = "idle"
        /\ op'[c].pc # "idle"
        /\ op'[c].kind \in Kinds
        /\ op'[c].sid \notin DOMAIN sessions) =>
         /\ op'[c].pc = "done"
         /\ op'[c].result.status = "session-not-found"
         /\ op'[c].nCalls = 0
         /\ sessions' = sessions
         /\ contexts' = contexts
         /\ cartItem' = cartItem
         /\ ctxCounter' = ctxCounter
         /\ itemCounter' = itemCounter]_vars

C10_Witness ==
  \E c \in Callers :
    /\ Finished(c)
    /\ op[c].sid \notin DOMAIN sessions
    /\ op[c].result.status = "session-not-found"
    /\ DOMAIN sessions # {}
    /\ \E s \in DOMAIN sessions : sessions[s].items # <<>>

\* C11 (inclusive boundary): a call on a context made at the instant that equals
\* the context's expiresAt fails with expired-context.
C11_InclusiveBoundary ==
  (/\ call.m \in Kinds
   /\ call.contextId \in DOMAIN contexts
   /\ call.t = contexts[call.contextId].expiresAt) =>
    call.status = "expired-context"

\* C12: when getCart, addItem, removeItem or updateItem has succeeded, Session.items
\* is the item list of the returned cart, ids included.
C12_SessionItemsSynced ==
  \A c \in Callers :
    (Finished(c) /\ op[c].result.status = "ok") =>
      sessions[op[c].sid].items = op[c].result.cart.items

\* C13 (total correctness): the total of a returned cart is the sum of price x
\* quantity over Session.items as they are when the operation returns, with and
\* without a recovery during the operation.
C13_TotalCorrect ==
  \A c \in Callers :
    (op[c].pc = "done" /\ op[c].result.status = "ok") =>
      op[c].result.cart.total = SumRecs(Content(cartItem, sessions[op[c].sid].items))

C13_Witness ==
  \E c \in Callers :
    /\ Finished(c)
    /\ op[c].recovered
    /\ op[c].kind = "updateItem"
    /\ op[c].result.status = "ok"
    /\ Len(op[c].result.cart.items) = 2
    /\ op[c].result.cart.total = 250

\* C14: in sequential runs, the step that changes a session's sfContextId sets it to
\* a context whose items are, in order and with the same productId, name, price and
\* quantity, the items Session.items held when the recovery started; it is the step
\* that follows the last replayed addItem, and it leaves Session.items alone.
C14_RebindAfterFullReplay ==
  [][\A s \in DOMAIN sessions :
       sessions'[s].sfContextId # sessions[s].sfContextId =>
         LET n == sessions'[s].sfContextId
         IN /\ n \in DOMAIN contexts
            /\ n \notin {sessions[t].sfContextId : t \in DOMAIN sessions}
            /\ sessions'[s].items = sessions[s].items
            /\ \E c \in Callers :
                 /\ op[c].sid = s
                 /\ op[c].pc \in {"created", "replay"}
                 /\ op'[c].pc = "rebound"
                 /\ op[c].resp.status = "ok"
                 /\ Content(cartItem, contexts[n].items) = op[c].preContent
                 /\ Content(cartItem, contexts[n].items)
                      = Content(cartItem, sessions[s].items)]_vars

C14_Witness ==
  \E c \in Callers :
    /\ op[c].pc = "rebound"
    /\ Len(op[c].preContent) = 2
    /\ op[c].preContent[1].quantity = 2
    /\ sessions[op[c].sid].sfContextId = op[c].newContext
    /\ Len(contexts[op[c].newContext].items) = 2

\* C15: createContext is called only after the first Provider call failed with
\* expired-context; when the first call succeeded or failed with item-not-found,
\* no context is created and sfContextId is what it was, and item-not-found is the
\* operation's outcome with the session (context id and items) unchanged.
C15_RecoveryOnlyOnExpiry ==
  \A c \in Callers :
    /\ (op[c].kind \in Kinds /\ op[c].nCreates >= 1) => op[c].first = "expired-context"
    /\ (Finished(c) /\ op[c].first \in {"ok", "item-not-found"}) =>
         /\ op[c].nCreates = 0
         /\ op[c].nCalls = 1
         /\ sessions[op[c].sid].sfContextId = op[c].pre.sfContextId
         /\ op[c].first = "item-not-found" =>
              /\ op[c].result.status = "item-not-found"
              /\ sessions[op[c].sid] = op[c].pre

C15_Witness ==
  \E c \in Callers :
    /\ Finished(c)
    /\ op[c].kind = "removeItem"
    /\ op[c].first = "item-not-found"
    /\ op[c].result.status = "item-not-found"
    /\ op[c].pre.items # <<>>

\* C16: a context id that a session's sfContextId has moved away from is the
\* sfContextId of no session afterwards, and no two sessions have the same
\* sfContextId.
C16_AbandonedNeverRevisited ==
  /\ \A s \in DOMAIN sessions : sessions[s].sfContextId \notin abandoned
  /\ \A s, t \in DOMAIN sessions :
       sessions[s].sfContextId = sessions[t].sfContextId => s = t

C16_Witness ==
  /\ Cardinality(DOMAIN sessions) = 2
  /\ Cardinality(abandoned) >= 1
  /\ \E s \in DOMAIN sessions : sessions[s].sfContextId > 2

\* Two operations on one session that both found the same context expired and
\* both rebound the session.
BothRecovered(c, d) ==
  /\ c # d
  /\ op[c].kind \in Kinds /\ op[d].kind \in Kinds
  /\ op[c].sid = op[d].sid
  /\ op[c].first = "expired-context" /\ op[d].first = "expired-context"
  /\ op[c].pre.sfContextId = op[d].pre.sfContextId
  /\ op[c].recovered /\ op[d].recovered

\* The new context of operation c starts with the replay of the Session.items its
\* loop went through.
HoldsReplay(c) ==
  LET items == contexts[op[c].newContext].items
  IN /\ Len(items) >= Len(op[c].replay)
     /\ Content(cartItem, SubSeq(items, 1, Len(op[c].replay)))
          = Content(cartItem, op[c].replay)

\* C17 (documented race): two operations in flight on one session that both found
\* the same context expired have each created a context of their own and replayed
\* Session.items into it; once both have rebound, the session is bound to one of
\* the two contexts and the other, fully replayed, is current for no session.
C17_RaceOrphansContext ==
  \A c, d \in Callers :
    BothRecovered(c, d) =>
      /\ op[c].newContext # op[d].newContext
      /\ op[c].nCreates = 1 /\ op[d].nCreates = 1
      /\ HoldsReplay(c) /\ HoldsReplay(d)
      /\ sessions[op[c].sid].sfContextId \in {op[c].newContext, op[d].newContext}
      /\ \E lost \in {op[c].newContext, op[d].newContext} :
           /\ lost \in abandoned
           /\ \A s \in DOMAIN sessions : sessions[s].sfContextId # lost

C17_Witness ==
  \E c, d \in Callers :
    /\ BothRecovered(c, d)
    /\ op[c].pc = "rebound" /\ op[d].pc = "rebound"
    /\ Len(op[c].replay) >= 1 /\ Len(op[d].replay) >= 1
    /\ sessions[op[c].sid].sfContextId = op[d].newContext
    /\ op[c].newContext \in abandoned
    /\ Len(contexts[op[c].newContext].items) = Len(op[c].replay)

\* The item an addItem that succeeded has added: the last one of its cart.
Added(c) == op[c].result.cart.items[Len(op[c].result.cart.items)]

BothAdded(c, d) ==
  /\ BothRecovered(c, d)
  /\ op[c].kind = "addItem" /\ op[d].kind = "addItem"
  /\ op[c].pc = "done" /\ op[d].pc = "done"
  /\ op[c].result.status = "ok" /\ op[d].result.status = "ok"

Current(sid) == contexts[sessions[sid].sfContextId].items

\* C18: when two addItem calls on one session that both found the context expired
\* have both succeeded, Session.items is the cart one of the two received; an added
\* item that is not among the items of the session's context sits in the context
\* the session has moved away from, and at least one of the two is in the
\* session's context.
C18_ConcurrentAddsConflict ==
  \A c, d \in Callers :
    BothAdded(c, d) =>
      /\ sessions[op[c].sid].items \in {op[c].result.cart.items, op[d].result.cart.items}
      /\ Added(c) \in Range(Current(op[c].sid)) \/ Added(d) \in Range(Current(op[c].sid))
      /\ Added(c) \notin Range(Current(op[c].sid)) =>
           \E x \in abandoned : Added(c) \in Range(contexts[x].items)

\* Both succeeded and one of the two added items is neither in Session.items nor
\* in the session's context.
C18_Witness ==
  \E c, d \in Callers :
    /\ BothAdded(c, d)
    /\ Added(c) \notin Range(Current(op[c].sid))
    /\ Added(c) \notin Range(sessions[op[c].sid].items)
    /\ Added(d) \in Range(Current(op[c].sid))
    /\ Added(d) \in Range(sessions[op[c].sid].items)

\* A step that is a call of addItem, getCart, removeItem or updateItem made on the
\* client directly.
DirectStep == nOps' = nOps + 1 /\ now' = now /\ call'.m \in Kinds

\* C19: a call of addItem, getCart, removeItem or updateItem that fails, with
\* expired-context or item-not-found, changes nothing: every context has the items
\* it had, with the fields they had, and no item id is used up.
C19_FailedCallMutatesNothing ==
  [][(DirectStep /\ call'.status \in {"expired-context", "item-not-found"}) =>
       /\ contexts' = contexts
       /\ cartItem' = cartItem
       /\ itemCounter' = itemCounter]_vars

C19_Witness ==
  /\ call.m = "removeItem"
  /\ call.status = "expired-context"
  /\ call.contextId \in DOMAIN contexts
  /\ call.itemId \in Range(contexts[call.contextId].items)
  /\ Len(contexts[call.contextId].items) = 2

\* The item list, the item objects and the expiry of context B are the same before
\* and after the step, and so is the outcome of the validity check on B.
Untouched(B) ==
  /\ contexts'[B] = contexts[B]
  /\ \A i \in Range(contexts[B].items) : cartItem'[i] = cartItem[i]
  /\ getValidContext(Provider', now', B) = getValidContext(Provider, now, B)

\* C20 (context isolation): a call of addItem, getCart, removeItem or updateItem on
\* context A leaves every other context B untouched (items, item fields, expiry),
\* and expireContext on A leaves every other context untouched and as valid as it
\* was, so that calls on B do not start to fail.
C20_ContextIsolation ==
  [][/\ DirectStep =>
          \A B \in DOMAIN contexts : B # call'.contextId => Untouched(B)
     /\ (nOps' = nOps /\ contexts' # contexts) =>
          \E A \in DOMAIN contexts :
            \A B \in DOMAIN contexts : B # A => Untouched(B)]_vars

C20_Witness ==
  \E A, B \in DOMAIN contexts :
    /\ A # B
    /\ getValidContext(Provider, now, A) = "expired-context"
    /\ contexts[A].items # <<>>
    /\ call.contextId = B
    /\ call.m = "addItem"
    /\ call.status = "ok"
    /\ call.t = now
    /\ contexts[A].expiresAt < call.t

\* C21 (error kinds of the client): a call of addItem, getCart, removeItem or
\* updateItem on a context that is unknown or past its expiresAt fails with
\* expired-context, whether the item id it names is in the context or not; on a
\* context before its expiresAt, removeItem/updateItem of an id that is not in the
\* context's list fail with item-not-found.
C21_ErrorKinds ==
  [][DirectStep =>
       LET x == call'.contextId
           known == x \in DOMAIN contexts
       IN /\ (~known \/ (known /\ now > contexts[x].expiresAt)) =>
               call'.status = "expired-context"
          /\ (/\ known
              /\ now < contexts[x].expiresAt
              /\ call'.m \in {"removeItem", "updateItem"}
              /\ call'.itemId \notin Range(contexts[x].items)) =>
               call'.status = "item-not-found"]_vars

C21_Witness ==
  /\ call.m = "updateItem"
  /\ call.status = "expired-context"
  /\ call.contextId \in DOMAIN contexts
  /\ call.itemId \notin Range(contexts[call.contextId].items)
  /\ contexts[call.contextId].items # <<>>

\* C22: a call of addItem, getCart, removeItem or updateItem that succeeds returns
\* the whole item list of the context it names, as it is after the call, and the
\* sum of price x quantity over these items as total (0 for none).
C22_FullCartAndTotal ==
  (call.m \in Kinds /\ call.status = "ok") =>
    /\ call.cart.items = contexts[call.contextId].items
    /\ call.cart.total = SumRecs(Content(cartItem, call.cart.items))
    /\ call.cart.items = <<>> => call.cart.total = 0

C22_Witness ==
  /\ call.m = "removeItem"
  /\ call.status = "ok"
  /\ Len(call.cart.items) = 2
  /\ \E i \in Range(call.cart.items) : cartItem[i].quantity = 2
  /\ call.cart.total > 100

\* C23: createContext succeeds; the id it returns is the id of no context created
\* before, the new context has no items (getCart on it returns an empty cart with
\* total 0) and its expiresAt is the instant of the call plus CONTEXT_EXPIRY_MS.
C23_CreateContext ==
  [][(nOps' = nOps + 1 /\ now' = now /\ call'.m = "createContext") =>
       LET x == call'.contextId
       IN /\ call'.status = "ok"
          /\ x \notin DOMAIN contexts
          /\ x \notin 1..ctxCounter
          /\ x \in DOMAIN contexts'
          /\ contexts'[x].items = <<>>
          /\ contexts'[x].expiresAt = now + CONTEXT_EXPIRY_MS
          /\ sfGetCart(Provider', now', x).status = "ok"
          /\ sfGetCart(Provider', now', x).cart.items = <<>>
          /\ sfGetCart(Provider', now', x).cart.total = 0
          /\ \A y \in DOMAIN contexts : contexts'[y] = contexts[y]]_vars

C23_Witness ==
  /\ call.m = "createContext"
  /\ call.status = "ok"
  /\ call.contextId = 2
  /\ call.t > 0
  /\ contexts[1].items # <<>>
  /\ contexts[2].expiresAt = call.t + CONTEXT_EXPIRY_MS

\* C24: the item ids in the item list of one context are pairwise distinct, also
\* when one productId was added more than once.
C24_DistinctItemIds ==
  \A x \in DOMAIN contexts :
    \A i, j \in 1..Len(contexts[x].items) :
      contexts[x].items[i] = contexts[x].items[j] => i = j

C24_Witness ==
  \E x \in DOMAIN contexts :
    /\ Len(contexts[x].items) = 3
    /\ \A i \in 1..3 : cartItem[contexts[x].items[i]].productId = "p1"

\* C25: the step in which createCart returns stores a session under an id that no
\* session had, bound to the context createContext has just created (the context
\* of no other session, and empty), with an empty Session.items; the cart returned
\* has no items and total 0, and, unless the test helper has expired the context
\* during the await, a getCart on the session's context at that moment succeeds
\* with an empty cart.
C25_CreateCart ==
  [][\A c \in Callers :
       (op[c].pc = "creating" /\ op'[c].pc = "done") =>
         LET sid == op'[c].sid
             x == sessions'[sid].sfContextId
         IN /\ op'[c].result.status = "ok"
            /\ sid \notin DOMAIN sessions
            /\ sid \in DOMAIN sessions'
            /\ x = op[c].resp.context
            /\ x = ctxCounter
            /\ x \notin abandoned
            /\ \A s \in DOMAIN sessions : sessions[s].sfContextId # x /\ sessions'[s] = sessions[s]
            /\ sessions'[sid].items = <<>>
            /\ op'[c].result.cart.items = <<>>
            /\ op'[c].result.cart.total = 0
            /\ contexts'[x].items = <<>>
            /\ now' <= contexts'[x].expiresAt =>
                  /\ sfGetCart(Provider', now', x).status = "ok"
                  /\ sfGetCart(Provider', now', x).cart.items = <<>>
                  /\ sfGetCart(Provider', now', x).cart.total = 0]_vars

C25_Witness ==
  \E c \in Callers :
    /\ op[c].pc = "done"
    /\ op[c].kind = "createCart"
    /\ op[c].sid = 2
    /\ sessions[2].sfContextId = 3
    /\ now <= contexts[3].expiresAt
    /\ sessions[1].items # <<>>

\* The caller's operation has moved in this step (an expiry only marks it).
Stepped(c) == [op'[c] EXCEPT !.disturbed = TRUE] # [op[c] EXCEPT !.disturbed = TRUE]

C27_CartIdMatchesSession ==
  \A c \in Callers :
    (op[c].pc = "done" /\ op[c].kind \in Kinds \cup {"createCart"}
       /\ op[c].result.status = "ok") =>
      op[c].result.cart.id = <<"cart_sess", op[c].sid>>

\* The Provider calls an operation may have made so far.
CallBound(c) ==
  IF op[c].first = "expired-context" THEN Len(op[c].pre.items) + 4 ELSE 1

\* C28: every coordinator operation that has been started settles, and by then it
\* has made exactly one Provider call when its first call did not report expiry
\* and at most |Session.items| + 4 calls, one of them createContext, when it did.
C28_CallsBounded ==
  \A c \in Callers :
    /\ op[c].nCalls <= CallBound(c)
    /\ op[c].nCreates <= (IF op[c].kind = "createCart" \/ op[c].first = "expired-context"
                          THEN 1 ELSE 0)
    /\ (op[c].pc = "done" /\ op[c].first # "expired-context"
          /\ op[c].result.status # "session-not-found") => op[c].nCalls = 1

C28_Terminates ==
  /\ []C28_CallsBounded
  /\ \A c \in SeqCallers : (op[c].pc # "idle") ~> (op[c].pc = "done")

C28_Witness ==
  \E c \in Callers :
    /\ op[c].pc = "done"
    /\ op[c].kind = "removeItem"
    /\ op[c].first = "expired-context"
    /\ Len(op[c].pre.items) = 2
    /\ op[c].nCalls = Len(op[c].pre.items) + 4

\* A call made on the client directly, at the current instant.
DirectGetCart == Quiet /\ Quiet' /\ nOps' = nOps + 1 /\ now' = now

\* Once a call on an existing context has failed with expired-context, a later
\* call on that context fails with expired-context too.
ExpiredStaysExpired ==
  \A x \in DOMAIN contexts :
    /\ now > contexts[x].expiresAt => now' > contexts'[x].expiresAt
    /\ (DirectGetCart /\ call.contextId = x /\ call.status = "expired-context"
          /\ call'.contextId = x) => call'.status = "expired-context"

C30_OneItemPerProduct ==
  \A c \in Callers :
    (Finished(c) /\ op[c].result.status = "ok") =>
      \A i, j \in 1..Len(Returned(c)) :
        Returned(c)[i].productId = Returned(c)[j].productId => i = j

\* The cart of the session's context once the finished operation of c is issued a
\* second time with the same arguments, the context being valid (the call is the
\* first Provider call of the operation, cart-service.ts:66, 86, 111, 151).
CartAfterSecondCall(c) ==
  LET x == sessions[op[c].sid].sfContextId
      r == SfCall(Provider, now,
                  FirstReq(op[c].kind, x, op[c].item, op[c].itemId, op[c].quantity), FALSE)
  IN Content(r.P.cartItem, r.P.contexts[x].items)

\* C31 (idempotence): issuing a call a second time right after it has succeeded
\* leaves the cart with the items (by productId and quantity) and the total it
\* had after the first call.
C31_Idempotent ==
  \A c \in Callers :
    (/\ Finished(c)
     /\ op[c].result.status = "ok"
     /\ getValidContext(Provider, now, sessions[op[c].sid].sfContextId) = "ok") =>
      /\ SameItems(ViewOf(CartAfterSecondCall(c)), op[c].result.view)
      /\ SumRecs(CartAfterSecondCall(c)) = op[c].result.cart.total

\* The position in Session.items (before the call) of the id the caller named, and
\* the first position holding an item with that productId.
NamedPos(c) == FindIndex(op[c].pre.items, LAMBDA x : x = op[c].itemId)
FirstMatchPos(c) ==
  FindIndex(op[c].preContent,
            LAMBDA r : r.productId = cartItem[op[c].itemId].productId)

\* C32 (first match): a removeItem/updateItem that detects expiry, with an id of
\* Session.items, addresses after recovery the item of the new context at the
\* first position that holds the productId of the named item, wherever the named
\* item stood; on success exactly the entry at that first position is removed or
\* has its quantity set, and the named entry's later duplicate is kept as it was.
C32_FirstMatchUsed ==
  \A c \in Callers :
    (RecoveredRemoveOrUpdate(c) /\ op[c].target # 0) =>
      LET j == FirstMatchPos(c)
      IN /\ j >= 1
         /\ j <= NamedPos(c)
         /\ Len(op[c].recoveredItems) = Len(op[c].pre.items)
         /\ op[c].target = op[c].recoveredItems[j]
         /\ op[c].result.status = "ok" =>
              Returned(c) =
                IF op[c].kind = "removeItem" THEN Splice(op[c].preContent, j)
                ELSE [op[c].preContent EXCEPT ![j].quantity = op[c].quantity]

\* The caller named the second of two entries of one product, which held another
\* quantity than the first, and the first was removed.
C32_Witness ==
  \E c \in Callers :
    /\ RecoveredRemoveOrUpdate(c)
    /\ op[c].kind = "removeItem"
    /\ op[c].result.status = "ok"
    /\ FirstMatchPos(c) < NamedPos(c)
    /\ op[c].preContent[FirstMatchPos(c)].quantity # op[c].preContent[NamedPos(c)].quantity
    /\ Len(Returned(c)) = 1
    /\ Returned(c)[1] = op[c].preContent[NamedPos(c)]

\* The item objects the step found on the heap are what they were.
HeapKept == \A i \in 1..Len(cartItem) : cartItem'[i] = cartItem[i]

\* C33: a call on the client that succeeds changes the items of its context as
\* follows.  addItem appends one new item, with the fields of an input, as the last
\* entry and leaves the entries there were unchanged; removeItem removes exactly
\* the entry with the given id and keeps the others in their order; updateItem
\* changes only the quantity of the entry with the given id, which keeps its id,
\* productId, name, price and position; getCart changes nothing.
C33_ItemListEffects ==
  [][(DirectStep /\ call'.status = "ok") =>
       LET x == call'.contextId
           old == contexts[x].items
           new == contexts'[x].items
           k == FindIndex(old, LAMBDA i : i = call'.itemId)
       IN /\ call'.m = "addItem" =>
               /\ Len(new) = Len(old) + 1
               /\ \A i \in 1..Len(old) : new[i] = old[i]
               /\ new[Len(new)] \notin Range(old)
               /\ HeapKept
               /\ \E item \in ItemInputs : cartItem'[new[Len(new)]] = InputRecord(item)
          /\ call'.m = "removeItem" =>
               /\ k >= 1
               /\ new = Splice(old, k)
               /\ call'.itemId \notin Range(new)
               /\ HeapKept /\ Len(cartItem') = Len(cartItem)
          /\ call'.m = "updateItem" =>
               /\ k >= 1
               /\ new = old
               /\ Len(cartItem') = Len(cartItem)
               /\ \A i \in 1..Len(cartItem) : i # call'.itemId => cartItem'[i] = cartItem[i]
               /\ \E q \in 1..MaxQuantity :
                    cartItem' = [cartItem EXCEPT ![call'.itemId].quantity = q]
          /\ call'.m = "getCart" => (contexts' = contexts /\ cartItem' = cartItem)
          /\ call'.cart.items = new]_vars

\* removeItem has taken the middle entry out of three, and the entries around it
\* are still there in their order.
C33_Witness ==
  /\ call.m = "removeItem"
  /\ call.status = "ok"
  /\ call.itemId = 2
  /\ call.contextId \in DOMAIN contexts
  /\ contexts[call.contextId].items = <<1, 3>>

\* No operation is suspended on an await.
NoneInFlight == \A c \in Callers : op[c].pc \in {"idle", "done"}

\* C34: whenever no operation is in flight, the (productId, name, price, quantity)
\* of Session.items are, in order, those of the items of the session's current
\* context.
C34_SessionMirrorsContext ==
  NoneInFlight =>
    \A sid \in DOMAIN sessions :
      /\ sessions[sid].sfContextId \in DOMAIN contexts
      /\ Content(cartItem, sessions[sid].items)
           = Content(cartItem, contexts[sessions[sid].sfContextId].items)

\* A getCart has recovered (Session.items keeps the ids of the abandoned context)
\* and a later operation has failed in recovery; the session holds an item.
C34_Witness ==
  \E c \in Callers :
    /\ op[c].pc = "done"
    /\ op[c].kind \in Kinds
    /\ op[c].result.status = "recovery-failed"
    /\ Len(sessions[op[c].sid].items) = 1
    /\ sessions[op[c].sid].items # contexts[sessions[op[c].sid].sfContextId].items

\* The operation of c settles in this step.
Settles(c) == op[c].pc \notin {"idle", "done"} /\ op'[c].pc = "done" /\ op'[c].kind \in Kinds

\* C35: an operation that returns an error leaves Session.items as it was when the
\* operation was called, ids and fields; and Session.items of a session changes
\* only in the step in which an addItem, removeItem or updateItem on that session
\* returns success.
C35_ErrorsKeepSessionItems ==
  [][/\ \A c \in Callers :
          (Settles(c) /\ op'[c].result.status # "ok" /\ op'[c].sid \in DOMAIN sessions') =>
            /\ sessions'[op'[c].sid].items = op'[c].pre.items
            /\ Content(cartItem', sessions'[op'[c].sid].items) = op'[c].preContent
     /\ \A s \in DOMAIN sessions :
          sessions'[s].items # sessions[s].items =>
            \E c \in Callers :
              /\ Settles(c)
              /\ op'[c].sid = s
              /\ op'[c].kind \in {"addItem", "removeItem", "updateItem"}
              /\ op'[c].result.status = "ok"]_vars

\* An updateItem on a session with an item has recovered, and the call issued
\* again has failed: the error is returned and Session.items is what it was.
C35_Witness ==
  \E c \in Callers :
    /\ op[c].pc = "done"
    /\ op[c].kind = "updateItem"
    /\ op[c].recovered
    /\ op[c].result.status = "expired-context"
    /\ op[c].pre.items # <<>>
    /\ sessions[op[c].sid].items = op[c].pre.items

\* C36: getCart is read-only for the cart content.  No step of a getCart changes
\* Session.items; when it settles, with or without recovery and whatever it
\* returns, the (productId, name, price, quantity) of the items of the session's
\* current context are, in order, those from before the call, and a cart it
\* returns shows exactly them.  The sfContextId and the item ids may have changed.
C36_GetCartReadOnly ==
  [][\A c \in Callers :
       (op'[c].kind = "getCart" /\ op'[c].sid \in DOMAIN sessions) =>
         LET sid == op'[c].sid
         IN /\ sessions'[sid].items = sessions[sid].items
            /\ Content(cartItem', sessions'[sid].items) = op'[c].preContent
            /\ Settles(c) =>
                 /\ Content(cartItem', contexts'[sessions'[sid].sfContextId].items)
                      = op'[c].preContent
                 /\ op'[c].result.status = "ok" =>
                      /\ Content(cartItem', op'[c].result.cart.items) = op'[c].preContent
                      /\ op'[c].result.cart.total = SumRecs(op'[c].preContent)]_vars

\* A getCart on a session with an item has recovered: the context and the item
\* ids of the cart are new.
C36_Witness ==
  \E c \in Callers :
    /\ op[c].pc = "done"
    /\ op[c].kind = "getCart"
    /\ op[c].recovered
    /\ op[c].result.status = "ok"
    /\ op[c].pre.items # <<>>
    /\ sessions[op[c].sid].sfContextId # op[c].pre.sfContextId
    /\ op[c].result.cart.items # op[c].pre.items

\* The item ids issued in the contexts the sessions have moved away from.
StaleIds == UNION { Range(contexts[x].items) : x \in abandoned \cap DOMAIN contexts }

\* No item id stands in two contexts or twice in one.
IdsIssuedOnce ==
  /\ \A x, y \in DOMAIN contexts :
       x # y => Range(contexts[x].items) \cap Range(contexts[y].items) = {}
  /\ \A x \in DOMAIN contexts :
       \A i, j \in 1..Len(contexts[x].items) :
         contexts[x].items[i] = contexts[x].items[j] => i = j
  /\ \A x \in DOMAIN contexts : \A i \in Range(contexts[x].items) : i \in 1..itemCounter

\* The first Provider call of a removeItem/updateItem that names a stale id, made
\* on a valid context.
StaleCall(c) ==
  /\ op[c].pc = "idle"
  /\ op'[c].pc = "first"
  /\ op'[c].kind \in {"removeItem", "updateItem"}
  /\ op'[c].itemId \in StaleIds
  /\ getValidContext(Provider, now, sessions[op'[c].sid].sfContextId) = "ok"

\* C37: an item id is issued once across all contexts; a removeItem/updateItem
\* with an id of an abandoned context, on a session whose current context is
\* valid, gets item-not-found from the Provider, which changes no item and no
\* item list, and item-not-found is what the operation returns.
C37_StaleIdNotFound ==
  /\ []IdsIssuedOnce
  /\ [][\A c \in Callers :
          StaleCall(c) =>
            /\ op'[c].resp.status = "item-not-found"
            /\ contexts' = contexts
            /\ cartItem' = cartItem
            /\ sessions' = sessions]_vars
  /\ [](\A c \in Callers :
          (Finished(c) /\ op[c].kind \in {"removeItem", "updateItem"}
             /\ op[c].itemId \in StaleIds /\ op[c].first \notin {"none", "expired-context"}) =>
            /\ op[c].result.status = "item-not-found"
            /\ sessions[op[c].sid] = op[c].pre)

C37_Witness ==
  \E c \in Callers :
    /\ Finished(c)
    /\ op[c].kind = "updateItem"
    /\ op[c].itemId \in StaleIds
    /\ op[c].first = "item-not-found"
    /\ op[c].result.status = "item-not-found"
    /\ contexts[sessions[op[c].sid].sfContextId].items # <<>>

\* C38: a removeItem/updateItem that has recovered and has found the named id in
\* Session.items finds, in the cart of the new context, an item with the productId
\* of the named item; recovery-failed is never raised after that lookup, only
\* because createContext or a replay addItem failed.
C38_LookupAlwaysFinds ==
  \A c \in Callers :
    /\ (op[c].pc = "lookup" /\ op[c].resp.status = "ok") =>
         /\ op[c].itemId \in Range(sessions[op[c].sid].items)
         /\ NewItem(op[c].resp.cart.items, op[c].itemId) # 0
    /\ (op[c].pc = "done" /\ op[c].result.status = "recovery-failed") =>
         /\ op[c].result.cause \in {"create", "replay"}
         /\ ~op[c].recovered

\* The recovered cart of an updateItem has arrived with two items of different
\* products, the named one being the second.
C38_Witness ==
  \E c \in Callers :
    /\ op[c].pc = "lookup"
    /\ op[c].resp.status = "ok"
    /\ op[c].kind = "updateItem"
    /\ Len(op[c].resp.cart.items) = 2
    /\ op[c].itemId = op[c].pre.items[2]
    /\ NewItem(op[c].resp.cart.items, op[c].itemId) = op[c].resp.cart.items[2]

\* C39: a session, once stored by createCart, stays in the session map under its
\* id through every operation, expiry and recovery, failed or successful; an
\* operation called with its id passes getSession and makes its Provider call,
\* and never returns session-not-found.
C39_SessionStaysResolvable ==
  /\ [][/\ DOMAIN sessions \subseteq DOMAIN sessions'
        /\ \A c \in Callers :
             (op[c].pc = "idle" /\ op'[c].kind \in Kinds /\ op'[c].sid \in DOMAIN sessions) =>
               (op'[c].pc = "first" /\ op'[c].nCalls = 1)]_vars
  /\ [](\A c \in Callers :
          (Finished(c) /\ op[c].result.status = "session-not-found") =>
            (op[c].nCalls = 0 /\ op[c].sid \notin DOMAIN sessions))

\* An operation on the first session, after a recovery of it has failed and its
\* context was expired, is served.
C39_Witness ==
  \E c \in Callers :
    /\ Finished(c)
    /\ op[c].sid = 1
    /\ op[c].prev = "recovery-failed"
    /\ op[c].result.status # "session-not-found"
    /\ 2 \in DOMAIN sessions

====
